---- MODULE Spec2Model ----
(***************************************************************************)
(* A model of fst::Partition<T> (partition.h): the partition-refinement    *)
(* structure behind Hopcroft minimisation.  Elements and classes are       *)
(* records in two index-addressed arrays; each class owns a 'no' and a     *)
(* 'yes' doubly-linked list threaded through the element array.            *)
(***************************************************************************)
EXTENDS Integers, Sequences, FiniteSets, TLC

\* ---- bounds of the model ------------------------------------------------
MaxElements == 4      \* the partition is built by Initialize(MaxElements)
MaxClasses == 2       \* AddClass / AllocateClasses stop at this many classes
MaxAlloc == 2         \* AllocateClasses(k) is drawn from 1..MaxAlloc
MaxEpoch == 3         \* FinalizeSplit stops once yes_counter_ reaches this
MaxCalls == 8         \* the driver makes at most this many calls

VARIABLES
    elements_,          \* vector<Element>: 0..n-1 -> Element record
    classes_,           \* vector<Class>:   0..k-1 -> Class record
    visited_classes_,   \* vector<T>: classes with a non-empty 'yes' list
    yes_counter_,       \* the epoch against which Element.yes is compared
    L,                  \* the caller's queue handed to FinalizeSplit
    added,              \* elements on which Add() has been called
    failed,             \* TRUE once a CHECK has failed (the process aborted)
    lastOp,             \* the call that produced this state, with its result
    calls               \* the number of calls made since construction

vars == <<elements_, classes_, visited_classes_, yes_counter_, L, added,
          failed, lastOp, calls>>

\* ---- the records --------------------------------------------------------
\* The NULL of the index-linked lists ("negative value corresponds to NULL").
Null == 0 - 1

\* An element as vector::resize leaves it: value-initialised, all fields 0.
Element ==
    [class_id |-> 0, yes |-> 0, next_element |-> 0, prev_element |-> 0]

\* Class(): size(0), yes_size(0), no_head(-1), yes_head(-1)
Class ==
    [size |-> 0, yes_size |-> 0, no_head |-> Null, yes_head |-> Null]

\* classes_.size()
num_classes(cls) == Cardinality(DOMAIN cls)

\* elements_.size()
num_elements(els) == Cardinality(DOMAIN els)

\* classes_.resize(classes_.size() + k): k default-constructed classes appended
Resize(cls, k) ==
    [i \in 0..(num_classes(cls) + k - 1) |->
        IF i < num_classes(cls) THEN cls[i] ELSE Class]

\* The record of a call: its name, its arguments and what it returned.
Call(op, args, ret) ==
    [op |-> op, args |-> args, ret |-> ret]

\* ---- the member functions, as functions of the arrays --------------------

\* Element.yes read as the bool its comment speaks of, not against the epoch.
InYes_AsBool(element, yc) == element.yes = 1

\* Element.yes read as "has been marked", in whatever epoch.
InYes_EverMarked(element, yc) == element.yes # 0

\* element.yes == yes_counter_: the element is in the 'yes' subset.
InYes(element, yc) == element.yes = yc

\* Add without element.class_id = class_id.
Add_KeepsClassId(els, cls, element_id, class_id) ==
    LET no_head == cls[class_id].no_head
        els1 == IF no_head >= 0
                THEN [els EXCEPT ![no_head].prev_element = element_id]
                ELSE els
    IN  [elements |-> [els1 EXCEPT ![element_id] =
                          [class_id |-> els[element_id].class_id, yes |-> 0,
                           next_element |-> no_head, prev_element |-> Null]],
         classes  |-> [cls EXCEPT ![class_id] =
                          [@ EXCEPT !.size = @ + 1, !.no_head = element_id]]]

\* Add(element_id, class_id): push the element on the 'no' list of the class.
Add(els, cls, element_id, class_id) ==
    LET no_head == cls[class_id].no_head
        els1 == IF no_head >= 0
                THEN [els EXCEPT ![no_head].prev_element = element_id]
                ELSE els
    IN  [elements |-> [els1 EXCEPT ![element_id] =
                          [class_id |-> class_id, yes |-> 0,
                           next_element |-> no_head, prev_element |-> Null]],
         classes  |-> [cls EXCEPT ![class_id].size = @ + 1,
                                  ![class_id].no_head = element_id]]

\* Move whose second CHECK tests old_class.size >= 0 only.
Move_SkipsYesSizeCheck(els, cls, yc, element_id, class_id) ==
    LET element == els[element_id]
        old     == element.class_id
        chk1    == ~InYes(element, yc)
        cls1    == [cls EXCEPT ![old].size = @ - 1]
        chk2    == cls1[old].size >= 0
        chk3    == element.prev_element >= 0 \/ cls1[old].no_head = element_id
        els1    == IF element.prev_element >= 0
                   THEN [els EXCEPT ![element.prev_element].next_element =
                                        element.next_element]
                   ELSE els
        cls2    == IF element.prev_element >= 0
                   THEN cls1
                   ELSE [cls1 EXCEPT ![old].no_head = element.next_element]
        els2    == IF element.next_element >= 0
                   THEN [els1 EXCEPT ![element.next_element].prev_element =
                                        element.prev_element]
                   ELSE els1
        after   == Add(els2, cls2, element_id, class_id)
    IN  IF ~chk1 THEN [elements |-> els, classes |-> cls, ok |-> FALSE]
        ELSE IF ~chk2 THEN [elements |-> els, classes |-> cls1, ok |-> FALSE]
        ELSE IF ~chk3 THEN [elements |-> els1, classes |-> cls1, ok |-> FALSE]
        ELSE [elements |-> after.elements, classes |-> after.classes,
              ok |-> TRUE]

\* Move(element_id, class_id): excise the element from the 'no' list of its
\* class and Add it to class_id.  ok is FALSE when one of the CHECKs fails;
\* the arrays are then as the aborting call left them.
Move(els, cls, yc, element_id, class_id) ==
    LET element == els[element_id]
        old     == element.class_id
        chk1    == ~InYes(element, yc)
        cls1    == [cls EXCEPT ![old].size = @ - 1]
        chk2    == cls1[old].size >= 0 /\ cls1[old].yes_size = 0
        chk3    == element.prev_element >= 0 \/ cls1[old].no_head = element_id
        els1    == IF element.prev_element >= 0
                   THEN [els EXCEPT ![element.prev_element].next_element =
                                        element.next_element]
                   ELSE els
        cls2    == IF element.prev_element >= 0
                   THEN cls1
                   ELSE [cls1 EXCEPT ![old].no_head = element.next_element]
        els2    == IF element.next_element >= 0
                   THEN [els1 EXCEPT ![element.next_element].prev_element =
                                        element.prev_element]
                   ELSE els1
        after   == Add(els2, cls2, element_id, class_id)
    IN  IF ~chk1 THEN [elements |-> els, classes |-> cls, ok |-> FALSE]
        ELSE IF ~chk2 THEN [elements |-> els, classes |-> cls1, ok |-> FALSE]
        ELSE IF ~chk3 THEN [elements |-> els1, classes |-> cls1, ok |-> FALSE]
        ELSE [elements |-> after.elements, classes |-> after.classes,
              ok |-> TRUE]

\* if (this_class.yes_head >= 0) ... else visited_classes_.push_back(class_id)
Visit(vis, yes_head, class_id) ==
    IF yes_head >= 0 THEN vis ELSE Append(vis, class_id)

\* SplitOn(element_id): move the element from the 'no' list to the head of
\* the 'yes' list of its class; a class whose 'yes' list was empty is
\* recorded in visited_classes_.  hit is TRUE on the early return.
SplitOn(els, cls, vis, yc, element_id) ==
    LET element  == els[element_id]
        class_id == element.class_id
        chk1     == element.prev_element >= 0 \/ cls[class_id].no_head = element_id
        els1     == IF element.prev_element >= 0
                    THEN [els EXCEPT ![element.prev_element].next_element =
                                         element.next_element]
                    ELSE els
        cls1     == IF element.prev_element >= 0
                    THEN cls
                    ELSE [cls EXCEPT ![class_id].no_head = element.next_element]
        els2     == IF element.next_element >= 0
                    THEN [els1 EXCEPT ![element.next_element].prev_element =
                                         element.prev_element]
                    ELSE els1
        yes_head == cls1[class_id].yes_head
        els3     == IF yes_head >= 0
                    THEN [els2 EXCEPT ![yes_head].prev_element = element_id]
                    ELSE els2
        vis1     == Visit(vis, yes_head, class_id)
        els4     == [els3 EXCEPT ![element_id].yes = yc,
                                 ![element_id].next_element = yes_head,
                                 ![element_id].prev_element = Null]
        cls2     == [cls1 EXCEPT ![class_id].yes_head = element_id,
                                 ![class_id].yes_size = @ + 1]
        chk2     == cls2[class_id].yes_size <= cls2[class_id].size
    IN  IF InYes(element, yc)
        THEN [elements |-> els, classes |-> cls, visited |-> vis,
              ok |-> TRUE, hit |-> TRUE]
        ELSE IF ~chk1
        THEN [elements |-> els, classes |-> cls, visited |-> vis,
              ok |-> FALSE, hit |-> FALSE]
        ELSE [elements |-> els4, classes |-> cls2, visited |-> vis1,
              ok |-> chk2, hit |-> FALSE]

\* The relabelling loop with e > 0 as its test: it stops at element 0.
RECURSIVE Relabel_Positive(_, _, _, _)
Relabel_Positive(els, e, new_class_id, fuel) ==
    IF e <= 0 \/ fuel = 0
    THEN els
    ELSE Relabel_Positive([els EXCEPT ![e].class_id = new_class_id],
                          els[e].next_element, new_class_id, fuel - 1)

\* for (e = head; e >= 0; e = elements[e].next_element)
\*     elements[e].class_id = new_class_id;
\* fuel bounds the walk by the number of elements.
RECURSIVE Relabel(_, _, _, _)
Relabel(els, e, new_class_id, fuel) ==
    IF e < 0 \/ fuel = 0
    THEN els
    ELSE Relabel([els EXCEPT ![e].class_id = new_class_id],
                 els[e].next_element, new_class_id, fuel - 1)

\* The all-'yes' case without the hand-over of the list to no_head.
AllToNo_DropsList(cls, class_id) ==
    [cls EXCEPT ![class_id].yes_head = Null,
                ![class_id].yes_size = 0]

\* no_size == 0: all members are in the 'yes' subset; they all become 'no'.
AllToNo(cls, class_id) ==
    [cls EXCEPT ![class_id].no_head = cls[class_id].yes_head,
                ![class_id].yes_head = Null,
                ![class_id].yes_size = 0]

\* The comparison with <=: on a tie the 'no' subset moves.
NoIsSmaller_OrEqual(no_size, yes_size) == no_size <= yes_size

\* The comparison inverted: the larger subset moves.
NoIsSmaller_Inverted(no_size, yes_size) == no_size > yes_size

\* The 'no' subset moves whatever the sizes are.
NoIsSmaller_Always(no_size, yes_size) == TRUE

\* if (no_size < yes_size): the 'no' subset is the one that moves.
NoIsSmaller(no_size, yes_size) == no_size < yes_size

\* The 'no' branch without old_class.yes_head = -1.
NoToNew_KeepsYesHead(cls, class_id, new_class_id, no_size, yes_size) ==
    [cls EXCEPT ![new_class_id].no_head = cls[class_id].no_head,
                ![new_class_id].size = no_size,
                ![class_id].no_head = cls[class_id].yes_head,
                ![class_id].size = yes_size,
                ![class_id].yes_size = 0]

\* The 'no' subset goes to the new class; the 'yes' subset becomes the 'no'
\* subset of the old class.
NoToNew(cls, class_id, new_class_id, no_size, yes_size) ==
    [cls EXCEPT ![new_class_id].no_head = cls[class_id].no_head,
                ![new_class_id].size = no_size,
                ![class_id].no_head = cls[class_id].yes_head,
                ![class_id].yes_head = Null,
                ![class_id].size = yes_size,
                ![class_id].yes_size = 0]

\* The 'yes' branch without old_class.size = no_size.
YesToNew_KeepsSize(cls, class_id, new_class_id, no_size, yes_size) ==
    [cls EXCEPT ![new_class_id].size = yes_size,
                ![new_class_id].no_head = cls[class_id].yes_head,
                ![class_id].yes_size = 0,
                ![class_id].yes_head = Null]

\* The 'yes' branch without old_class.yes_size = 0.
YesToNew_KeepsYesSize(cls, class_id, new_class_id, no_size, yes_size) ==
    [cls EXCEPT ![new_class_id].size = yes_size,
                ![new_class_id].no_head = cls[class_id].yes_head,
                ![class_id].size = no_size,
                ![class_id].yes_head = Null]

\* The 'yes' subset goes to the new class (as its 'no' subset); the old class
\* retains its 'no' subset.
YesToNew(cls, class_id, new_class_id, no_size, yes_size) ==
    [cls EXCEPT ![new_class_id].size = yes_size,
                ![new_class_id].no_head = cls[class_id].yes_head,
                ![class_id].size = no_size,
                ![class_id].yes_size = 0,
                ![class_id].yes_head = Null]

\* The new class takes the last index in use.
NewClassId_LastIndex(cls) == num_classes(cls) - 1

\* T new_class_id = classes_.size();
NewClassId(cls) == num_classes(cls)

\* SplitRefine(class_id): ret is the new class, or -1 if none was created.
SplitRefine(els, cls, class_id) ==
    LET yes_size == cls[class_id].yes_size
        size     == cls[class_id].size
        no_size  == size - yes_size
        new_class_id == NewClassId(cls)
        grown    == Resize(cls, 1)
        cls1     == IF NoIsSmaller(no_size, yes_size)
                    THEN NoToNew(grown, class_id, new_class_id, no_size, yes_size)
                    ELSE YesToNew(grown, class_id, new_class_id, no_size, yes_size)
    IN  IF no_size = 0
        THEN [elements |-> els,
              classes  |-> IF cls[class_id].no_head < 0
                           THEN AllToNo(cls, class_id)
                           ELSE cls,
              ok  |-> cls[class_id].no_head < 0,
              ret |-> Null]
        ELSE [elements |-> Relabel(els, cls1[new_class_id].no_head,
                                   new_class_id, num_elements(els)),
              classes  |-> cls1,
              ok  |-> TRUE,
              ret |-> new_class_id]

\* The Enqueue without the test for -1.
Enqueue_Always(queue, has_queue, new_class) ==
    IF has_queue THEN Append(queue, new_class) ELSE queue

\* if (new_class != -1 && L) L->Enqueue(new_class);
Enqueue(queue, has_queue, new_class) ==
    IF new_class # Null /\ has_queue THEN Append(queue, new_class) ELSE queue

\* The loop of FinalizeSplit over visited_classes_[i], i < size: the arrays
\* after the calls of SplitRefine, the values they returned (rets) and the
\* queue after the Enqueue calls (queue; has_queue is FALSE for L == NULL).
RECURSIVE FinalizeLoop(_, _, _, _, _, _, _)
FinalizeLoop(els, cls, vis, i, queue, has_queue, rets) ==
    IF i > Len(vis)
    THEN [elements |-> els, classes |-> cls, queue |-> queue, rets |-> rets,
          ok |-> TRUE]
    ELSE LET r == SplitRefine(els, cls, vis[i])
         IN  IF ~r.ok
             THEN [elements |-> r.elements, classes |-> r.classes,
                   queue |-> queue, rets |-> rets, ok |-> FALSE]
             ELSE FinalizeLoop(r.elements, r.classes, vis, i + 1,
                               Enqueue(queue, has_queue, r.ret),
                               has_queue, Append(rets, r.ret))

\* ---- the state machine ---------------------------------------------------

\* Partition(T num_elements) { Initialize(num_elements); } on a new object:
\* n value-initialised elements, no classes, yes_counter_ = 1.
Init ==
    \E n \in {MaxElements} :
        /\ elements_ = [e \in 0..(n - 1) |-> Element]
        /\ classes_ = [c \in {} |-> Class]
        /\ visited_classes_ = << >>
        /\ yes_counter_ = 1
        /\ L = << >>
        /\ added = {}
        /\ failed = FALSE
        /\ lastOp = Call("Initialize", <<n>>, Null)
        /\ calls = 0

\* One more call of the driver, while it has calls left.
Called ==
    /\ calls < MaxCalls
    /\ calls' = calls + 1

\* T AddClass()
DoAddClass ==
    /\ ~failed
    /\ Called
    /\ num_classes(classes_) + 1 <= MaxClasses
    /\ classes_' = Resize(classes_, 1)
    /\ lastOp' = Call("AddClass", << >>, num_classes(classes_))
    /\ UNCHANGED <<elements_, visited_classes_, yes_counter_, L, added, failed>>

\* void AllocateClasses(T num_classes)
DoAllocateClasses ==
    /\ ~failed
    /\ Called
    /\ \E k \in 1..MaxAlloc :
        /\ num_classes(classes_) + k <= MaxClasses
        /\ classes_' = Resize(classes_, k)
        /\ lastOp' = Call("AllocateClasses", <<k>>, Null)
    /\ UNCHANGED <<elements_, visited_classes_, yes_counter_, L, added, failed>>

\* The element Add() is called for next: the elements are added in the order
\* of their indices (an index is only ever used to index elements_, so any
\* other order is this one with the elements renamed).
NextToAdd ==
    {e \in DOMAIN elements_ \ added :
        \A f \in DOMAIN elements_ \ added : e <= f}

\* void Add(T element_id, T class_id), on an element that is in no class yet
DoAdd ==
    /\ ~failed
    /\ Called
    /\ \E element_id \in NextToAdd, class_id \in DOMAIN classes_ :
        LET r == Add(elements_, classes_, element_id, class_id)
        IN  /\ elements_' = r.elements
            /\ classes_' = r.classes
            /\ added' = added \cup {element_id}
            /\ lastOp' = Call("Add", <<element_id, class_id>>, Null)
    /\ UNCHANGED <<visited_classes_, yes_counter_, L, failed>>

\* What Move() asks of its caller: the element is in the 'no' list of its
\* class and that class has no SplitOn pending.
MovePre(element_id) ==
    /\ element_id \in added
    /\ elements_[element_id].yes # yes_counter_
    /\ classes_[elements_[element_id].class_id].yes_size = 0

\* void Move(T element_id, T class_id)
DoMove ==
    /\ ~failed
    /\ Called
    /\ \E element_id \in DOMAIN elements_, class_id \in DOMAIN classes_ :
        /\ MovePre(element_id)
        /\ LET r == Move(elements_, classes_, yes_counter_, element_id, class_id)
           IN  /\ elements_' = r.elements
               /\ classes_' = r.classes
               /\ failed' = ~r.ok
               /\ lastOp' = Call("Move", <<element_id, class_id>>, Null)
    /\ UNCHANGED <<visited_classes_, yes_counter_, L, added>>

\* void SplitOn(T element_id), on an element of some class
DoSplitOn ==
    /\ ~failed
    /\ Called
    /\ \E element_id \in added :
        LET r == SplitOn(elements_, classes_, visited_classes_, yes_counter_,
                         element_id)
        IN  /\ elements_' = r.elements
            /\ classes_' = r.classes
            /\ visited_classes_' = r.visited
            /\ failed' = ~r.ok
            /\ lastOp' = Call("SplitOn", <<element_id>>, r.hit)
    /\ UNCHANGED <<yes_counter_, L, added>>

\* FinalizeSplit without visited_classes_.clear().
Clear_Keeps(vis) == vis

\* visited_classes_.clear()
Clear(vis) == << >>

\* void FinalizeSplit(Queue* L), with the caller's queue or with NULL
DoFinalizeSplit ==
    /\ ~failed
    /\ Called
    /\ yes_counter_ < MaxEpoch
    /\ \E has_queue \in BOOLEAN :
        LET r == FinalizeLoop(elements_, classes_, visited_classes_, 1, L,
                              has_queue, << >>)
        IN  /\ elements_' = r.elements
            /\ classes_' = r.classes
            /\ L' = r.queue
            /\ failed' = ~r.ok
            /\ visited_classes_' = IF r.ok THEN Clear(visited_classes_)
                                            ELSE visited_classes_
            /\ yes_counter_' = IF r.ok THEN yes_counter_ + 1 ELSE yes_counter_
            /\ lastOp' = Call("FinalizeSplit", <<has_queue>>, r.rets)
    /\ UNCHANGED added

Next ==
    \/ DoAddClass
    \/ DoAllocateClasses
    \/ DoAdd
    \/ DoMove
    \/ DoSplitOn
    \/ DoFinalizeSplit

Spec == Init /\ [][Next]_vars

\* ---- Move() without regard to what it asks of its caller -----------------

\* void Move(T element_id, T class_id), on any element of some class
DoMoveUnchecked ==
    /\ ~failed
    /\ Called
    /\ \E element_id \in added, class_id \in DOMAIN classes_ :
        LET r == Move(elements_, classes_, yes_counter_, element_id, class_id)
        IN  /\ elements_' = r.elements
            /\ classes_' = r.classes
            /\ failed' = ~r.ok
            /\ lastOp' = Call("Move", <<element_id, class_id>>, Null)
    /\ UNCHANGED <<visited_classes_, yes_counter_, L, added>>

NextMove ==
    \/ DoAddClass
    \/ DoAllocateClasses
    \/ DoAdd
    \/ DoMoveUnchecked
    \/ DoSplitOn
    \/ DoFinalizeSplit

SpecMove == Init /\ [][NextMove]_vars

\* ---- Add() without regard to what it asks of its caller ------------------

\* void Add(T element_id, T class_id), on the next element or on one that is
\* in a class already
DoAddUnchecked ==
    /\ ~failed
    /\ Called
    /\ \E element_id \in NextToAdd \cup added, class_id \in DOMAIN classes_ :
        LET r == Add(elements_, classes_, element_id, class_id)
        IN  /\ elements_' = r.elements
            /\ classes_' = r.classes
            /\ added' = added \cup {element_id}
            /\ lastOp' = Call("Add", <<element_id, class_id>>, Null)
    /\ UNCHANGED <<visited_classes_, yes_counter_, L, failed>>

NextAdd ==
    \/ DoAddClass
    \/ DoAllocateClasses
    \/ DoAddUnchecked
    \/ DoMove
    \/ DoSplitOn
    \/ DoFinalizeSplit

SpecAdd == Init /\ [][NextAdd]_vars

\* ---- Initialize() on a partition in use --------------------------------

\* void Initialize(size_t num_elements) on an object in any state:
\* elements_.resize keeps the records below num_elements and value-initialises
\* new ones, classes_ is cleared, yes_counter_ is 1; visited_classes_ is not
\* touched.  No element is in a class afterwards.
DoInitialize ==
    /\ ~failed
    /\ Called
    /\ \E n \in 1..MaxElements :
        /\ elements_' = [e \in 0..(n - 1) |->
                            IF e \in DOMAIN elements_ THEN elements_[e]
                                                      ELSE Element]
        /\ lastOp' = Call("Initialize", <<n>>, Null)
    /\ classes_' = [c \in {} |-> Class]
    /\ yes_counter_' = 1
    /\ added' = {}
    /\ UNCHANGED <<visited_classes_, L, failed>>

\* void FinalizeSplit(Queue* L) when visited_classes_ may hold indices from
\* before an Initialize.  classes_[i] for an index past the end is undefined;
\* the run is not followed past such a call.
DoFinalizeSplitStale ==
    IF \A i \in DOMAIN visited_classes_ :
           visited_classes_[i] \in DOMAIN classes_
    THEN DoFinalizeSplit
    ELSE /\ ~failed
         /\ Called
         /\ yes_counter_ < MaxEpoch
         /\ failed' = TRUE
         /\ \E has_queue \in BOOLEAN :
                lastOp' = Call("FinalizeSplit", <<has_queue>>, << >>)
         /\ UNCHANGED <<elements_, classes_, visited_classes_, yes_counter_,
                        L, added>>

NextReinit ==
    \/ DoInitialize
    \/ DoAddClass
    \/ DoAllocateClasses
    \/ DoAdd
    \/ DoMove
    \/ DoSplitOn
    \/ DoFinalizeSplitStale

SpecReinit == Init /\ [][NextReinit]_vars

\* ---- reading the structure ----------------------------------------------

\* The elements met by following next_element from head, in order.  The walk
\* gives up after fuel steps, so with fuel above the number of elements a list
\* that cycles shows as a walk longer than there are elements.
RECURSIVE Walk(_, _, _)
Walk(els, head, fuel) ==
    IF head < 0 \/ fuel = 0
    THEN << >>
    ELSE <<head>> \o Walk(els, els[head].next_element, fuel - 1)

Range(s) == {s[i] : i \in DOMAIN s}

NoDuplicates(s) == Cardinality(Range(s)) = Len(s)

\* The 'no' and the 'yes' list of a class, and the elements that record the
\* class as theirs.
NoList(els, cls, c) == Walk(els, cls[c].no_head, num_elements(els) + 1)

YesList(els, cls, c) == Walk(els, cls[c].yes_head, num_elements(els) + 1)

Members(els, add, c) == {e \in add : els[e].class_id = c}

\* An iterator that starts at the 'yes' list.
Iterate_FromYesHead(els, cls, class_id) ==
    Walk(els, cls[class_id].yes_head, num_elements(els) + 1)

\* PartitionIterator over class_id: the values of Value() from construction
\* (or Reset) through Next() until Done().
Iterate(els, cls, class_id) ==
    Walk(els, cls[class_id].no_head, num_elements(els) + 1)

\* class_size(c) summed over the classes 0..k-1
RECURSIVE SumSizes(_, _)
SumSizes(cls, k) ==
    IF k = 0 THEN 0 ELSE cls[k - 1].size + SumSizes(cls, k - 1)

\* A call of FinalizeSplit has just returned / is the step being taken.
AfterFinalizeSplit == lastOp.op = "FinalizeSplit" /\ ~failed

FinalizeSplitStep == lastOp'.op = "FinalizeSplit" /\ ~failed'

\* The classes FinalizeSplit created during the step.
Created == DOMAIN classes_' \ DOMAIN classes_

\* No CHECK fails while the functions are used as documented.
NoCheckFails == ~failed

\* ---- C1 -----------------------------------------------------------------
\* C1 as stated: in every reachable state the class sizes sum to the number
\* of elements the partition was initialised with.
C1_SumIsElementCount ==
    SumSizes(classes_, num_classes(classes_)) = num_elements(elements_)

\* C1 (amended): in every reachable state the class sizes sum to the number
\* of elements that have been added to a class, which is the element count
\* once every element has been added.
C1_SizeConservation ==
    SumSizes(classes_, num_classes(classes_)) = Cardinality(added)

\* Elements were added, some were moved to a class that FinalizeSplit
\* created, and one initialised element is still in no class.
C1_Witness ==
    /\ AfterFinalizeSplit
    /\ \E i \in DOMAIN lastOp.ret : lastOp.ret[i] # Null
    /\ Cardinality(added) >= 2
    /\ Cardinality(added) < num_elements(elements_)

\* ---- C2 -----------------------------------------------------------------
\* C2: for every class c, 0 <= yes_size <= size; the 'yes' list holds exactly
\* yes_size elements and the 'no' list exactly size - yes_size; the two lists
\* are disjoint and together are the elements whose class_id is c.
C2_Sublists ==
    \A c \in DOMAIN classes_ :
        LET no  == NoList(elements_, classes_, c)
            yes == YesList(elements_, classes_, c)
        IN  /\ 0 <= classes_[c].yes_size
            /\ classes_[c].yes_size <= classes_[c].size
            /\ Len(yes) = classes_[c].yes_size
            /\ NoDuplicates(yes)
            /\ Len(no) = classes_[c].size - classes_[c].yes_size
            /\ NoDuplicates(no)
            /\ Range(yes) \cap Range(no) = {}
            /\ Range(yes) \cup Range(no) = Members(elements_, added, c)

\* A class with two elements in its 'yes' list and one in its 'no' list, in a
\* partition that has already been refined once.
C2_Witness ==
    /\ yes_counter_ >= 2
    /\ \E c \in DOMAIN classes_ :
           /\ classes_[c].yes_size = 2
           /\ classes_[c].size = 3

\* ---- C3 -----------------------------------------------------------------
\* C3: an element that has been added is, in every later state, on a list of
\* the class its class_id names and on no list of another class (the lists of
\* a class hold only elements whose class_id is that class); and iterating the
\* 'no' list of a class yields elements of that class, none twice.
C3_Coverage ==
    /\ \A e \in added :
           /\ elements_[e].class_id \in DOMAIN classes_
           /\ e \in Range(NoList(elements_, classes_, elements_[e].class_id))
                    \cup Range(YesList(elements_, classes_, elements_[e].class_id))
    /\ \A c \in DOMAIN classes_ :
           LET it  == Iterate(elements_, classes_, c)
               yes == YesList(elements_, classes_, c)
           IN  /\ NoDuplicates(it)
               /\ \A i \in DOMAIN it : elements_[it[i]].class_id = c
               /\ \A i \in DOMAIN yes : elements_[yes[i]].class_id = c

\* FinalizeSplit has just split a class: the class it created iterates over
\* one element and another class over two.
C3_Witness ==
    /\ AfterFinalizeSplit
    /\ \E i \in DOMAIN lastOp.ret :
           /\ lastOp.ret[i] # Null
           /\ Len(Iterate(elements_, classes_, lastOp.ret[i])) = 1
    /\ \E c \in DOMAIN classes_ : Len(Iterate(elements_, classes_, c)) = 2

\* ---- FinalizeSplit, seen as a step ---------------------------------------

\* The two subsets of class v before the step, and which of them the claim
\* sends to the new class: the smaller, the 'yes' subset on a tie.
YesSet(v) == Range(YesList(elements_, classes_, v))

NoSet(v) == Range(NoList(elements_, classes_, v))

MovedSet(v) ==
    IF Cardinality(NoSet(v)) < Cardinality(YesSet(v)) THEN NoSet(v) ELSE YesSet(v)

KeptSet(v) ==
    IF Cardinality(NoSet(v)) < Cardinality(YesSet(v)) THEN YesSet(v) ELSE NoSet(v)

\* Visited classes with both subsets non-empty, and with all members 'yes'.
BothNonEmpty(v) == YesSet(v) # {} /\ NoSet(v) # {}

AllDistinguished(v) == YesSet(v) # {} /\ NoSet(v) = {}

\* ---- C4 -----------------------------------------------------------------
\* C4: FinalizeSplit creates, for every visited class with a non-empty 'yes'
\* and a non-empty 'no' subset, exactly one new class whose members are the
\* smaller subset (the 'yes' subset on a tie); the other subset stays in the
\* class as its 'no' list, and exactly the moved elements get the new class
\* as their class_id.
C4_Step ==
    FinalizeSplitStep =>
        \A v \in Range(visited_classes_) :
            BothNonEmpty(v) =>
                /\ Cardinality({k \in Created :
                       Members(elements_', added', k) = MovedSet(v)}) = 1
                /\ \A k \in Created :
                       Members(elements_', added', k) = MovedSet(v) =>
                           /\ Range(NoList(elements_', classes_', k)) = MovedSet(v)
                           /\ \A e \in added :
                                  (elements_'[e].class_id = k) <=> (e \in MovedSet(v))
                /\ Range(NoList(elements_', classes_', v)) = KeptSet(v)
                /\ Members(elements_', added', v) = KeptSet(v)
                /\ \A e \in KeptSet(v) :
                       elements_'[e].class_id = elements_[e].class_id

C4_SplitsOffSmaller == [][C4_Step]_vars

\* FinalizeSplit has just split a class of three whose 'no' subset was the
\* smaller one: the class it created holds one element that was not 'yes' in
\* the epoch just closed, and two elements that were 'yes' stay behind.
C4_Witness ==
    /\ AfterFinalizeSplit
    /\ \E i \in DOMAIN lastOp.ret :
           /\ lastOp.ret[i] # Null
           /\ classes_[lastOp.ret[i]].size = 1
           /\ \A e \in Members(elements_, added, lastOp.ret[i]) :
                  elements_[e].yes # yes_counter_ - 1
           /\ \E c \in DOMAIN classes_ :
                  /\ classes_[c].size = 2
                  /\ \A e \in Members(elements_, added, c) :
                         elements_[e].yes = yes_counter_ - 1

\* ---- C5 -----------------------------------------------------------------
\* C5: after FinalizeSplit every class it created has at least one element
\* and at most as many as the class its elements came from retains.
C5_Step ==
    FinalizeSplitStep =>
        \A k \in Created :
            /\ classes_'[k].size >= 1
            /\ Members(elements_', added', k) # {}
            /\ \A e \in Members(elements_', added', k) :
                   /\ elements_[e].class_id \in Range(visited_classes_)
                   /\ classes_'[k].size <= classes_'[elements_[e].class_id].size

C5_NewIsSmaller == [][C5_Step]_vars

\* FinalizeSplit has just created a class with one element out of a class
\* that retains two.
C5_Witness ==
    /\ AfterFinalizeSplit
    /\ \E i \in DOMAIN lastOp.ret :
           /\ lastOp.ret[i] # Null
           /\ classes_[lastOp.ret[i]].size = 1
           /\ \E c \in DOMAIN classes_ : classes_[c].size = 2

\* ---- C6 -----------------------------------------------------------------
\* C6: for a visited class all of whose members are 'yes', FinalizeSplit
\* creates no class and enqueues nothing: the class keeps its size and its
\* members, its former 'yes' list is its 'no' list, and yes_size is 0 with an
\* empty 'yes' list.
C6_Step ==
    FinalizeSplitStep =>
        \A v \in Range(visited_classes_) :
            AllDistinguished(v) =>
                /\ classes_'[v].size = classes_[v].size
                /\ Members(elements_', added', v) = Members(elements_, added, v)
                /\ NoList(elements_', classes_', v) = YesList(elements_, classes_, v)
                /\ Range(NoList(elements_', classes_', v)) = Members(elements_, added, v)
                /\ classes_'[v].yes_size = 0
                /\ classes_'[v].yes_head = Null
                /\ YesList(elements_', classes_', v) = << >>
                /\ \A k \in Created :
                       \A e \in Members(elements_', added', k) :
                           elements_[e].class_id # v
                /\ Cardinality(Created)
                     = Cardinality({w \in Range(visited_classes_) : BothNonEmpty(w)})
                /\ Len(L') - Len(L) <= Cardinality(Created)
                /\ \A i \in DOMAIN L' : i > Len(L) => L'[i] \in Created

C6_AllDistinguished == [][C6_Step]_vars

\* FinalizeSplit has just met a class of two elements that were both 'yes':
\* SplitRefine returned -1 for it.
C6_Witness ==
    /\ AfterFinalizeSplit
    /\ Len(lastOp.ret) >= 1
    /\ lastOp.ret[1] = Null
    /\ lastOp.args[1] = TRUE
    /\ \E c \in DOMAIN classes_ : classes_[c].size >= 2

\* ---- C7 -----------------------------------------------------------------
\* No member of class c is 'yes' in the current epoch.
Undistinguished(c) ==
    \A e \in Members(elements_, added, c) : elements_[e].yes # yes_counter_

\* C7: a class none of whose elements was distinguished since the last
\* FinalizeSplit is not in visited_classes_, and FinalizeSplit leaves it as
\* it is: the same Class record, the same 'no' list, the same members with
\* the same Element records.
C7_NotVisited ==
    \A c \in DOMAIN classes_ :
        Undistinguished(c) => \A i \in DOMAIN visited_classes_ : visited_classes_[i] # c

C7_Step ==
    FinalizeSplitStep =>
        \A c \in DOMAIN classes_ :
            Undistinguished(c) =>
                /\ classes_'[c] = classes_[c]
                /\ NoList(elements_', classes_', c) = NoList(elements_, classes_, c)
                /\ Members(elements_', added', c) = Members(elements_, added, c)
                /\ \A e \in Members(elements_, added, c) : elements_'[e] = elements_[e]

C7_Untouched == [][C7_NotVisited' /\ C7_Step]_vars

\* FinalizeSplit has just split one class while another class, with an
\* element in it, had no 'yes' element: its member's tag is not the epoch
\* just closed.
C7_Witness ==
    /\ AfterFinalizeSplit
    /\ \E i \in DOMAIN lastOp.ret : lastOp.ret[i] # Null
    /\ \E c \in DOMAIN classes_ :
           /\ c \notin Range(lastOp.ret)
           /\ classes_[c].size >= 1
           /\ \A e \in Members(elements_, added, c) :
                  elements_[e].yes # yes_counter_ - 1
           /\ \E d \in DOMAIN classes_ :
                  /\ d # c
                  /\ d \notin Range(lastOp.ret)
                  /\ \E e \in Members(elements_, added, d) :
                         elements_[e].yes = yes_counter_ - 1

\* ---- C8 -----------------------------------------------------------------
\* C8: when FinalizeSplit returns, visited_classes_ is empty, yes_counter_ is
\* one more than before, no element is 'yes', and every class has yes_size 0
\* and an empty 'yes' list, all its members being on its 'no' list.
C8_Step ==
    FinalizeSplitStep =>
        /\ visited_classes_' = << >>
        /\ yes_counter_' = yes_counter_ + 1
        /\ \A e \in added' : elements_'[e].yes # yes_counter_'
        /\ \A c \in DOMAIN classes_' :
               /\ classes_'[c].yes_size = 0
               /\ classes_'[c].yes_head = Null
               /\ YesList(elements_', classes_', c) = << >>
               /\ Range(NoList(elements_', classes_', c))
                    = Members(elements_', added', c)

C8_ResetsYes == [][C8_Step]_vars

\* FinalizeSplit has just returned for the second time, after a cycle in
\* which one class was all 'yes'; one element carries the tag of the first
\* epoch and one the tag of the second.
C8_Witness ==
    /\ AfterFinalizeSplit
    /\ yes_counter_ = 3
    /\ Cardinality(added) >= 2
    /\ \E i \in DOMAIN lastOp.ret : lastOp.ret[i] = Null
    /\ \E e \in added : elements_[e].yes = 2
    /\ \E e \in added : elements_[e].yes = 1

\* ---- C9 -----------------------------------------------------------------
\* The visited classes that FinalizeSplit splits, in the order of
\* visited_classes_.
Splitting == SelectSeq(visited_classes_, BothNonEmpty)

\* What the step appended to the queue.
Enqueued == SubSeq(L', Len(L) + 1, Len(L'))

\* C9: a call of FinalizeSplit with a queue only appends to it, and appends
\* exactly the classes it created, each once, in the order in which the
\* classes they were split from stand in visited_classes_.
C9_Step ==
    FinalizeSplitStep =>
        /\ Len(L') >= Len(L)
        /\ SubSeq(L', 1, Len(L)) = L
        /\ lastOp'.args[1] =>
               /\ Len(Enqueued) = Len(Splitting)
               /\ Range(Enqueued) = Created
               /\ NoDuplicates(Enqueued)
               /\ \A i \in DOMAIN Enqueued :
                      /\ Members(elements_', added', Enqueued[i]) # {}
                      /\ \A e \in Members(elements_', added', Enqueued[i]) :
                             elements_[e].class_id = Splitting[i]
        /\ ~lastOp'.args[1] => L' = L

C9_Worklist == [][C9_Step]_vars

\* One FinalizeSplit has split two visited classes and has enqueued the two
\* classes it created, in the order of the SplitRefine calls.
C9_Witness ==
    /\ AfterFinalizeSplit
    /\ lastOp.args[1] = TRUE
    /\ Len(lastOp.ret) = 2
    /\ lastOp.ret[1] # Null
    /\ lastOp.ret[2] # Null
    /\ L = lastOp.ret

\* ---- C10 ----------------------------------------------------------------
\* C10: SplitOn of an added element that is already 'yes' in the current
\* epoch changes nothing: the state is the one the first SplitOn left.
C10_Step ==
    (/\ lastOp'.op = "SplitOn"
     /\ lastOp'.args[1] \in added
     /\ elements_[lastOp'.args[1]].yes = yes_counter_)
        => UNCHANGED <<elements_, classes_, visited_classes_, yes_counter_, L,
                       added, failed>>

C10_Idempotent == [][C10_Step]_vars

\* SplitOn has just returned early, for an element that is not the head of
\* the 'yes' list of its class, in a partition refined before.
C10_Witness ==
    /\ lastOp.op = "SplitOn"
    /\ lastOp.ret = TRUE
    /\ yes_counter_ >= 2
    /\ elements_[lastOp.args[1]].yes = yes_counter_
    /\ elements_[lastOp.args[1]].prev_element >= 0

\* ---- C11 ----------------------------------------------------------------
\* A list without the element e.
Without(list, e) == SelectSeq(list, LAMBDA x : x # e)

\* C11: Move(e, c), called as documented, takes e out of the 'no' list of its
\* class and puts it at the head of the 'no' list of c: e's class_id is c,
\* the old class has one element less and c one more (both sizes unchanged
\* when c is the old class), and every other element keeps its class_id and
\* every other class its members.
C11_Step ==
    (lastOp'.op = "Move" /\ ~failed') =>
        LET e   == lastOp'.args[1]
            c   == lastOp'.args[2]
            old == elements_[e].class_id
        IN  /\ elements_'[e].class_id = c
            /\ NoList(elements_', classes_', c)
                 = <<e>> \o Without(NoList(elements_, classes_, c), e)
            /\ old # c =>
                   /\ classes_'[old].size = classes_[old].size - 1
                   /\ classes_'[c].size = classes_[c].size + 1
                   /\ NoList(elements_', classes_', old)
                        = Without(NoList(elements_, classes_, old), e)
            /\ old = c => classes_'[c].size = classes_[c].size
            /\ \A f \in added \ {e} :
                   elements_'[f].class_id = elements_[f].class_id
            /\ \A d \in DOMAIN classes_ \ {old, c} :
                   /\ classes_'[d] = classes_[d]
                   /\ Members(elements_', added', d) = Members(elements_, added, d)
            /\ DOMAIN classes_' = DOMAIN classes_

C11_MoveRelinks == [][C11_Step]_vars

\* Scenario D: element 0 has just been moved to class 1, which now holds two
\* elements, and class 0 is empty.
C11_Witness ==
    /\ lastOp = Call("Move", <<0, 1>>, Null)
    /\ ~failed
    /\ elements_[0].class_id = 1
    /\ classes_[0].size = 0
    /\ classes_[1].size = 2

\* ---- C12 ----------------------------------------------------------------
\* C12: Move(e, c) called while e is 'yes' in the current epoch, or while the
\* class of e has a non-empty 'yes' subset, fails a CHECK: the call aborts and
\* no element has been relinked or relabelled.
C12_Step ==
    (/\ lastOp'.op = "Move"
     /\ \/ elements_[lastOp'.args[1]].yes = yes_counter_
        \/ classes_[elements_[lastOp'.args[1]].class_id].yes_size > 0)
        => /\ failed'
           /\ elements_' = elements_
           /\ \A d \in DOMAIN classes_ :
                  /\ classes_'[d].no_head = classes_[d].no_head
                  /\ classes_'[d].yes_head = classes_[d].yes_head

C12_MoveFailsFast == [][C12_Step]_vars

\* Move has just aborted on its second CHECK: the element is not 'yes', but
\* its class has a 'yes' element.
C12_Witness ==
    /\ failed
    /\ lastOp.op = "Move"
    /\ elements_[lastOp.args[1]].yes # yes_counter_
    /\ classes_[elements_[lastOp.args[1]].class_id].yes_size > 0

\* ---- C13 ----------------------------------------------------------------
\* C13: Add(e, c) for an element e that already is in a class aborts instead
\* of completing.
C13_Step ==
    (lastOp'.op = "Add" /\ lastOp'.args[1] \in added) => failed'

C13_DuplicateAddAborts == [][C13_Step]_vars

\* ---- C14 ----------------------------------------------------------------
\* The arrays after Initialize(4), AddClass() twice, Add(0,0), Add(1,0),
\* Add(2,0), Add(3,0), SplitOn(1) and SplitOn(2).
ScenarioA ==
    LET c0 == Resize(Resize([c \in {} |-> Class], 1), 1)
        e0 == [e \in 0..3 |-> Element]
        a0 == Add(e0, c0, 0, 0)
        a1 == Add(a0.elements, a0.classes, 1, 0)
        a2 == Add(a1.elements, a1.classes, 2, 0)
        a3 == Add(a2.elements, a2.classes, 3, 0)
        s1 == SplitOn(a3.elements, a3.classes, << >>, 1, 1)
    IN  SplitOn(s1.elements, s1.classes, s1.visited, 1, 2)

\* FinalizeSplit(&L), with an empty queue, is called at the end of Scenario A.
C14_Call ==
    /\ elements_ = ScenarioA.elements
    /\ classes_ = ScenarioA.classes
    /\ visited_classes_ = ScenarioA.visited
    /\ yes_counter_ = 1
    /\ L = << >>
    /\ lastOp'.op = "FinalizeSplit"
    /\ lastOp'.args = <<TRUE>>

\* C14, as stated: the call creates class 1 with elements {1,2}, class 0
\* keeps {0,3}, and the queue holds [1].
C14_AsStated ==
    C14_Call =>
        /\ classes_'[1].size = 2
        /\ Members(elements_', added', 1) = {1, 2}
        /\ classes_'[0].size = 2
        /\ Members(elements_', added', 0) = {0, 3}
        /\ L' = <<1>>

C14_ScenarioA == [][C14_AsStated]_vars

\* C14, amended: the two AddClass calls made classes 0 and 1, so the call
\* creates class 2 with elements {1,2}; class 0 keeps {0,3}, class 1 stays
\* empty, and the queue holds [2].
C14_Step ==
    C14_Call =>
        /\ ~failed'
        /\ num_classes(classes_') = 3
        /\ classes_'[2].size = 2
        /\ Members(elements_', added', 2) = {1, 2}
        /\ classes_'[0].size = 2
        /\ Members(elements_', added', 0) = {0, 3}
        /\ classes_'[1].size = 0
        /\ Members(elements_', added', 1) = {}
        /\ L' = <<2>>

C14_ScenarioACreatesClass2 == [][C14_Step]_vars

\* The state after the last call of Scenario A.
C14_Witness ==
    /\ lastOp = Call("FinalizeSplit", <<TRUE>>, <<2>>)
    /\ elements_ = [e \in 0..3 |->
                       [ScenarioA.elements[e] EXCEPT
                           !.class_id = IF e \in {1, 2} THEN 2 ELSE 0]]
    /\ L = <<2>>
    /\ yes_counter_ = 2
    /\ classes_[0].size = 2
    /\ classes_[1].size = 0
    /\ classes_[2].size = 2

\* ---- C15 ----------------------------------------------------------------
\* C15: Initialize(n), from any state, leaves n elements, no classes,
\* yes_counter_ at 1 and an empty visited_classes_.
C15_Step ==
    lastOp'.op = "Initialize" =>
        /\ DOMAIN elements_' = 0..(lastOp'.args[1] - 1)
        /\ num_classes(classes_') = 0
        /\ yes_counter_' = 1
        /\ visited_classes_' = << >>

C15_InitializeResets == [][C15_Step]_vars

\* ---- C16 ----------------------------------------------------------------
\* C16: a PartitionIterator over class c, run from construction or Reset to
\* Done, yields the elements of c that are not 'yes', each once, in
\* size - yes_size calls of Next; when no class has a 'yes' element it yields
\* every member of c.
C16_IteratorYieldsNoList ==
    \A c \in DOMAIN classes_ :
        LET it == Iterate(elements_, classes_, c)
        IN  /\ Len(it) = classes_[c].size - classes_[c].yes_size
            /\ NoDuplicates(it)
            /\ Range(it) = {e \in Members(elements_, added, c) :
                               elements_[e].yes # yes_counter_}
            /\ (\A d \in DOMAIN classes_ : classes_[d].yes_size = 0)
                   => Range(it) = Members(elements_, added, c)

\* An iterator over a class of three with one 'yes' element yields the other
\* two.
C16_Witness ==
    \E c \in DOMAIN classes_ :
        /\ classes_[c].size = 3
        /\ classes_[c].yes_size = 1
        /\ Len(Iterate(elements_, classes_, c)) = 2

\* ---- C17 ----------------------------------------------------------------
\* The indices FinalizeSplit reports for the classes it created, in order.
NewClasses == SelectSeq(lastOp'.ret, LAMBDA r : r # Null)

\* C17: the classes are always 0 .. count-1 and none is ever removed short of
\* an Initialize.  AddClass returns the count before the call and adds one class,
\* AllocateClasses(k) adds k, FinalizeSplit adds one class for each visited
\* class with both subsets non-empty and numbers each with the count just
\* before it was created; Add, Move and SplitOn leave the count unchanged.
C17_Step ==
    LET before == num_classes(classes_)
        after  == num_classes(classes_')
    IN  /\ DOMAIN classes_' = 0..(after - 1)
        /\ lastOp'.op # "Initialize" => DOMAIN classes_ \subseteq DOMAIN classes_'
        /\ lastOp'.op = "AddClass" =>
               lastOp'.ret = before /\ after = before + 1
        /\ lastOp'.op = "AllocateClasses" => after = before + lastOp'.args[1]
        /\ lastOp'.op \in {"Add", "Move", "SplitOn"} => after = before
        /\ FinalizeSplitStep =>
               /\ after = before + Len(Splitting)
               /\ Len(NewClasses) = Len(Splitting)
               /\ \A i \in 1..Len(NewClasses) : NewClasses[i] = before + i - 1

C17_DenseIndices == [][C17_Step]_vars

\* ---- C18 ----------------------------------------------------------------
\* The classes that get their first 'yes' element in the step.
NewlyVisited ==
    {c \in DOMAIN classes_ \cap DOMAIN classes_' :
        classes_[c].yes_size = 0 /\ classes_'[c].yes_size > 0}

\* C18: visited_classes_ holds exactly the classes with yes_size > 0, each
\* once, in the order in which they got their first 'yes' element since the
\* last FinalizeSplit: a class is appended in the step that gives it its first
\* 'yes' element, and the list changes in no other way until FinalizeSplit
\* empties it.
C18_Step ==
    /\ Range(visited_classes_')
         = {c \in DOMAIN classes_' : classes_'[c].yes_size > 0}
    /\ NoDuplicates(visited_classes_')
    /\ IF lastOp'.op = "FinalizeSplit"
       THEN visited_classes_' = << >>
       ELSE \/ NewlyVisited = {} /\ visited_classes_' = visited_classes_
            \/ \E c \in NewlyVisited :
                   /\ NewlyVisited = {c}
                   /\ visited_classes_' = Append(visited_classes_, c)

C18_VisitedInOrder == [][C18_Step]_vars

\* ---- C19 ----------------------------------------------------------------
\* C19: SplitOn(e) on an element that is not 'yes' in the current epoch takes
\* e out of the 'no' list of its class and puts it at the head of the 'yes'
\* list of the same class, whose yes_size grows by 1.  The other elements keep
\* their order in both lists, every element keeps its class_id, every class
\* its size, and the number of classes and yes_counter_ do not change.
C19_Step ==
    (/\ lastOp'.op = "SplitOn"
     /\ elements_[lastOp'.args[1]].yes # yes_counter_)
        => LET e == lastOp'.args[1]
               c == elements_[e].class_id
           IN  /\ ~failed'
               /\ e \in Range(NoList(elements_, classes_, c))
               /\ NoList(elements_', classes_', c)
                    = Without(NoList(elements_, classes_, c), e)
               /\ YesList(elements_', classes_', c)
                    = <<e>> \o YesList(elements_, classes_, c)
               /\ classes_'[c].yes_size = classes_[c].yes_size + 1
               /\ DOMAIN classes_' = DOMAIN classes_
               /\ \A d \in DOMAIN classes_ :
                      /\ classes_'[d].size = classes_[d].size
                      /\ d # c => /\ classes_'[d] = classes_[d]
                                  /\ NoList(elements_', classes_', d)
                                       = NoList(elements_, classes_, d)
                                  /\ YesList(elements_', classes_', d)
                                       = YesList(elements_, classes_, d)
               /\ \A f \in DOMAIN elements_ :
                      elements_'[f].class_id = elements_[f].class_id
               /\ yes_counter_' = yes_counter_

C19_SplitOnMovesOne == [][C19_Step]_vars

\* SplitOn has just put a second element on the 'yes' list of a class, in a
\* later epoch than the first, and the class still has a 'no' element.
C19_Witness ==
    /\ lastOp.op = "SplitOn"
    /\ lastOp.ret = FALSE
    /\ yes_counter_ > 1
    /\ \E c \in DOMAIN classes_ :
           /\ classes_[c].yes_head = lastOp.args[1]
           /\ classes_[c].yes_size = 2
           /\ classes_[c].size > 2

\* ---- C20 ----------------------------------------------------------------
\* The elements to which the step gives another class_id.
Relocated == {e \in added : elements_'[e].class_id # elements_[e].class_id}

\* C20: whenever FinalizeSplit changes the class_id of an element, the class
\* the element is in afterwards has at most half the size that the element's
\* class had before the call.
C20_Step ==
    FinalizeSplitStep =>
        \A e \in Relocated :
            2 * classes_'[elements_'[e].class_id].size
                <= classes_[elements_[e].class_id].size

C20_Halving == [][C20_Step]_vars

\* FinalizeSplit has just split a class of three: one element went to the new
\* class 1, two stayed in class 0.
C20_Witness ==
    /\ AfterFinalizeSplit
    /\ lastOp.ret = <<1>>
    /\ num_classes(classes_) = 2
    /\ classes_[0].size = 2
    /\ classes_[1].size = 1
    /\ Cardinality(added) = 3

\* ---- C21 ----------------------------------------------------------------
\* The loop at the end of SplitRefine, for (e = new_class.no_head; e >= 0;
\* e = elements[e].next_element): the elements it visits, given what the call
\* returned and the arrays it left.
RelabelVisits(els, cls, ret) ==
    IF ret = Null THEN << >> ELSE Walk(els, cls[ret].no_head, num_elements(els) + 1)

\* The number of elements that loop visits in each SplitRefine call of
\* FinalizeSplit, one entry per entry of visited_classes_ from i on.
RECURSIVE RelabelWork(_, _, _, _)
RelabelWork(els, cls, vis, i) ==
    IF i > Len(vis)
    THEN << >>
    ELSE LET r == SplitRefine(els, cls, vis[i])
         IN  IF ~r.ok
             THEN << >>
             ELSE <<Len(RelabelVisits(r.elements, r.classes, r.ret))>>
                      \o RelabelWork(r.elements, r.classes, vis, i + 1)

RECURSIVE SumSeq(_)
SumSeq(s) == IF s = << >> THEN 0 ELSE Head(s) + SumSeq(Tail(s))

\* The elements of class c, or of any class, that were made 'yes' since the
\* last FinalizeSplit.
MarkedIn(c) ==
    {e \in Members(elements_, added, c) : elements_[e].yes = yes_counter_}

Marked == {e \in added : elements_[e].yes = yes_counter_}

\* C21: in one FinalizeSplit, the relabelling loop visits, for each visited
\* class, at most as many elements as the class has 'yes' elements, and in
\* total at most as many as there are 'yes' elements; the elements it visits
\* are the ones whose class_id changes, and none of them is in a class without
\* a 'yes' element.
C21_Step ==
    FinalizeSplitStep =>
        LET work == RelabelWork(elements_, classes_, visited_classes_, 1)
        IN  /\ Len(work) = Len(visited_classes_)
            /\ \A i \in 1..Len(work) :
                   work[i] <= Cardinality(MarkedIn(visited_classes_[i]))
            /\ SumSeq(work) <= Cardinality(Marked)
            /\ SumSeq(work) = Cardinality(Relocated)
            /\ \A e \in Relocated : MarkedIn(elements_[e].class_id) # {}

C21_WorkBound == [][C21_Step]_vars

\* FinalizeSplit has just split a class of three with two 'yes' elements: the
\* loop visited the one element that was not 'yes', now alone in class 1.
C21_Witness ==
    /\ AfterFinalizeSplit
    /\ lastOp.ret = <<1>>
    /\ classes_[1].size = 1
    /\ classes_[0].size = 2
    /\ \A e \in added :
           elements_[e].class_id = 1 <=> elements_[e].yes # yes_counter_ - 1

====
